---- MODULE Spec2Model ----
(***************************************************************************)
(* Model of src/components/ChristmasScene.tsx: the useEffect that builds   *)
(* the three.js scene, the requestAnimationFrame loop (animate), the       *)
(* window resize handler (onWindowResize) and the effect's cleanup.        *)
(*                                                                         *)
(* Numbers.  Snow coordinates are fixed-point hundredths (20 is 2000, the  *)
(* per-tick fall 0.03 is 3, the drift amplitude 0.01 is 1).  Pixel ratios  *)
(* and the heart scale are hundredths too (2 is 200).  Math.sin is not     *)
(* computed: SinTimes100 gives the values the code can get from it, 0 for  *)
(* the argument 0 and any of -1, 0, 1 (times 100) otherwise.  The camera   *)
(* aspect w / h is kept as the fraction in lowest terms.                   *)
(***************************************************************************)
EXTENDS Integers, Sequences, FiniteSets

\* ---------------------------------------------------------------- bounds
MaxTicks == 3      \* animate runs at most this many times in a behaviour
MaxTime == 2       \* the clock is read at most this many seconds after start

\* ------------------------------------------------------ program constants
SnowFall == 3          \* pos[i] -= 0.03
SnowDrift == 1         \* ... * 0.01
SnowLower == -2000     \* if (pos[i] < -20)
SnowUpper == 2000      \* pos[i] = 20
MaxPixelRatio == 200   \* Math.min(window.devicePixelRatio, 2)
HeartAmp == 5          \* Math.sin(time * 3) * 0.05
HalfXZ == 2500         \* (Math.random() - 0.5) * 50
HalfY == 2000          \* (Math.random() - 0.5) * 40

\* ------------------------------------------------------------ environment
\* Container sizes (clientWidth, clientHeight) the browser may report.
ContainerSizes == { <<800, 600>>, <<400, 300>>, <<600, 300>> }
\* window.devicePixelRatio values, in hundredths.
DevicePixelRatios == { 150, 300 }
\* Position buffers createSnow can produce (x, y, z per particle, flattened):
\* x and z in [-25, 25), y in [-20, 20).
SnowBuffers ==
    { << -2500, -2000, 2499 >>,
      << 2499, -1997, -2500, 0, 1999, 0 >> }

VARIABLES
    phase,               \* "init", "skipped", "mounted", "cleaned"
    mountRefCurrent,     \* mountRef.current is an element
    clientSize,          \* <<clientWidth, clientHeight>> of the container
    devicePixelRatio,    \* window.devicePixelRatio
    elapsed,             \* seconds since the THREE.Clock started
    cameraAspect,        \* camera.aspect, a fraction <<num, den>>
    rendererSize,        \* renderer.setSize
    rendererPixelRatio,  \* renderer.setPixelRatio
    composerSize,        \* composer.setSize
    globalUniforms,      \* [uTime, uPixelRatio, pointTexture]
    heartScale,          \* heartSystem.scale
    pos,                 \* snowSystem.geometry.attributes.position.array
    sceneChildren,       \* objects scene.add has put in the scene
    windowListeners,     \* 'resize' listeners registered on window
    controlsConnected,   \* OrbitControls listens on renderer.domElement
    rendererDisposed,    \* renderer.dispose() was called
    textureDisposed,     \* bokehTexture.dispose() was called
    rafPending,          \* ids of the animation-frame callbacks pending
    rafNextId,           \* the id requestAnimationFrame returns next
    animationFrameId,    \* let animationFrameId (0 while unassigned)
    renderCount          \* calls of composer.render() so far

vars == << phase, mountRefCurrent, clientSize, devicePixelRatio, elapsed,
           cameraAspect, rendererSize, rendererPixelRatio, composerSize,
           globalUniforms, heartScale, pos, sceneChildren, windowListeners,
           controlsConnected, rendererDisposed, textureDisposed, rafPending,
           rafNextId, animationFrameId, renderCount >>

sceneVars == << cameraAspect, rendererSize, rendererPixelRatio, composerSize >>
loopVars == << heartScale, pos, rafPending, rafNextId, animationFrameId,
               renderCount >>
resourceVars == << sceneChildren, controlsConnected, rendererDisposed,
                   textureDisposed >>

\* ---------------------------------------------------------------- helpers
Min(a, b) == IF a < b THEN a ELSE b

RECURSIVE GCD(_, _)
GCD(a, b) == IF b = 0 THEN a ELSE GCD(b, a % b)

\* w / h as a fraction in lowest terms.
Aspect(w, h) == << w \div GCD(w, h), h \div GCD(w, h) >>

\* The clamp left out: the device pixel ratio as reported.
ClampPixelRatioMissing(d) == d

\* Math.min(window.devicePixelRatio, 2)
ClampPixelRatio(d) == Min(d, MaxPixelRatio)

\* The values 100 * Math.sin(a) can take.
SinTimes100(a) == IF a = 0 THEN { 0 } ELSE { -100, 0, 100 }

\* animate returning without scheduling its successor.
RequestAnimationFrameDropped(pending, id) == pending

\* requestAnimationFrame(cb): the callback is pending under the id returned.
RequestAnimationFrame(pending, id) == pending \cup { id }

\* Cancelling the frame before the last one scheduled (a stale id).
CancelAnimationFrameStale(pending, id) == pending \ { id - 1 }

\* cancelAnimationFrame(id): the callback with that id is no longer pending.
CancelAnimationFrame(pending, id) == pending \ { id }

\* Removing a handler that is not the one registered (removes nothing).
RemoveEventListenerOther(listeners, handler) == listeners

\* window.removeEventListener('resize', handler)
RemoveEventListener(listeners, handler) == listeners \ { handler }

\* The reset to the upper bound left out.
SnowWrapMissing(y) == y

\* if (pos[i] < -20) pos[i] = 20
SnowWrap(y) == IF y < SnowLower THEN SnowUpper ELSE y

\* The drift with amplitude 0.1 in place of 0.01.
DriftOfTenfold(s) == (s * SnowDrift) \div 10

\* The x displacement Math.sin(time * 0.5 + pos[i]) * 0.01, for sine value s.
DriftOf(s) == (s * SnowDrift) \div 100

\* One pass of the loop body at index i of the buffer (i is the 0-based index
\* of the code: pos[i] is p[i + 1] here and pos[i - 1] is p[i]).  The fall is
\* applied first, the drift reads the fallen y, the wrap comes last.
SnowUpdate(p, i, time) ==
    LET y1 == p[i + 1] - SnowFall
    IN  { [p EXCEPT ![i + 1] = SnowWrap(y1), ![i] = p[i] + DriftOf(s)] :
            s \in SinTimes100(50 * time + y1) }

\* for (let i = 1; i < pos.length; i += 3) { ... }: every buffer the loop can
\* leave, started at index i.
RECURSIVE SnowLoop(_, _, _)
SnowLoop(p, i, time) ==
    IF ~(i < Len(p))
    THEN { p }
    ELSE UNION { SnowLoop(q, i + 3, time) : q \in SnowUpdate(p, i, time) }

\* const beat = 1 + Math.sin(time * 3) * 0.05
HeartBeats(time) == { 100 + (s * HeartAmp) \div 100 : s \in SinTimes100(3 * time) }

\* ------------------------------------------------------------------- Init
\* Before the effect runs: nothing is built, the browser reports some
\* container size and pixel ratio, the ref may or may not hold the element.
Init ==
    /\ phase = "init"
    /\ mountRefCurrent \in BOOLEAN
    /\ clientSize \in ContainerSizes
    /\ devicePixelRatio \in DevicePixelRatios
    /\ elapsed = 0
    /\ cameraAspect = << 0, 0 >>
    /\ rendererSize = << 0, 0 >>
    /\ rendererPixelRatio = 0
    /\ composerSize = << 0, 0 >>
    /\ globalUniforms = [uTime |-> 0, uPixelRatio |-> 0, pointTexture |-> "none"]
    /\ heartScale = 100
    /\ pos = << >>
    /\ sceneChildren = {}
    /\ windowListeners = {}
    /\ controlsConnected = FALSE
    /\ rendererDisposed = FALSE
    /\ textureDisposed = FALSE
    /\ rafPending = {}
    /\ rafNextId = 1
    /\ animationFrameId = 0
    /\ renderCount = 0

\* animate that also re-reads the device pixel ratio into the uniform.
AnimateWritesPixelRatio(u, p, pending) ==
    LET time == elapsed
    IN  /\ animationFrameId' = rafNextId
        /\ rafPending' = RequestAnimationFrame(pending, rafNextId)
        /\ rafNextId' = rafNextId + 1
        /\ globalUniforms' =
              [u EXCEPT !.uTime = time,
                        !.uPixelRatio = ClampPixelRatio(devicePixelRatio)]
        /\ heartScale' \in HeartBeats(time)
        /\ pos' \in SnowLoop(p, 1, time)
        /\ renderCount' = renderCount + 1

\* ---------------------------------------------------------------- animate
\* The body of animate, run on uniforms u and snow buffer p with the given
\* callbacks still pending: schedule the successor, read the clock, write
\* uTime, pulse the heart, move the snow, render once.
Animate(u, p, pending) ==
    LET time == elapsed
    IN  /\ animationFrameId' = rafNextId
        /\ rafPending' = RequestAnimationFrame(pending, rafNextId)
        /\ rafNextId' = rafNextId + 1
        /\ globalUniforms' = [u EXCEPT !.uTime = time]
        /\ heartScale' \in HeartBeats(time)
        /\ pos' \in SnowLoop(p, 1, time)
        /\ renderCount' = renderCount + 1

\* The browser runs a pending animation-frame callback.  The callback leaves
\* the pending list before it runs.
AnimationFrame ==
    /\ renderCount < MaxTicks
    /\ \E cb \in rafPending :
          Animate(globalUniforms, pos, rafPending \ { cb })
    /\ UNCHANGED << phase, mountRefCurrent, clientSize, devicePixelRatio,
                    elapsed, sceneVars, windowListeners, resourceVars >>

\* Time passes on the clock animate reads.
ClockAdvance ==
    /\ phase \in { "mounted", "cleaned" }
    /\ elapsed < MaxTime
    /\ elapsed' = elapsed + 1
    /\ UNCHANGED << phase, mountRefCurrent, clientSize, devicePixelRatio,
                    sceneVars, globalUniforms, windowListeners, resourceVars,
                    loopVars >>

\* ------------------------------------------------------------------ mount
\* useEffect with mountRef.current unset: the effect returns at once and
\* registers no cleanup.
MountSkipped ==
    /\ phase = "init"
    /\ ~mountRefCurrent
    /\ phase' = "skipped"
    /\ UNCHANGED << mountRefCurrent, clientSize, devicePixelRatio, elapsed,
                    sceneVars, globalUniforms, windowListeners, resourceVars,
                    loopVars >>

\* useEffect with the container present: build camera, renderer, composer,
\* texture, uniforms and the four particle systems, attach the controls, run
\* animate once, register the resize listener.
Mount ==
    /\ phase = "init"
    /\ mountRefCurrent
    /\ phase' = "mounted"
    /\ cameraAspect' = Aspect(clientSize[1], clientSize[2])
    /\ rendererSize' = clientSize
    /\ rendererPixelRatio' = ClampPixelRatio(devicePixelRatio)
    /\ composerSize' = clientSize
    /\ sceneChildren' = { "tree", "heart", "base", "snow" }
    /\ controlsConnected' = TRUE
    /\ \E buffer \in SnowBuffers :
          Animate([uTime |-> 0,
                   uPixelRatio |-> ClampPixelRatio(devicePixelRatio),
                   pointTexture |-> "bokehTexture"],
                  buffer, rafPending)
    /\ windowListeners' = windowListeners \cup { "onWindowResize" }
    /\ UNCHANGED << mountRefCurrent, clientSize, devicePixelRatio, elapsed,
                    rendererDisposed, textureDisposed >>

\* onWindowResize without the composer.setSize call.
OnWindowResizeNoComposer(size) ==
    IF ~mountRefCurrent
    THEN UNCHANGED << sceneVars, globalUniforms >>
    ELSE /\ cameraAspect' = Aspect(size[1], size[2])
         /\ rendererSize' = size
         /\ globalUniforms' =
               [globalUniforms EXCEPT
                   !.uPixelRatio = ClampPixelRatio(devicePixelRatio)]
         /\ UNCHANGED << rendererPixelRatio, composerSize >>

\* ----------------------------------------------------------------- resize
\* The body of onWindowResize for a container of the given size.
OnWindowResize(size) ==
    IF ~mountRefCurrent
    THEN UNCHANGED << sceneVars, globalUniforms >>
    ELSE /\ cameraAspect' = Aspect(size[1], size[2])
         /\ rendererSize' = size
         /\ composerSize' = size
         /\ globalUniforms' =
               [globalUniforms EXCEPT
                   !.uPixelRatio = ClampPixelRatio(devicePixelRatio)]
         /\ UNCHANGED rendererPixelRatio

\* The window is resized: the container takes a new size and the browser
\* dispatches 'resize' to the listeners registered on window.
WindowResize ==
    /\ phase \in { "mounted", "cleaned" }
    /\ \E size \in ContainerSizes :
          /\ clientSize' = size
          /\ IF "onWindowResize" \in windowListeners
             THEN OnWindowResize(size)
             ELSE UNCHANGED << sceneVars, globalUniforms >>
    /\ UNCHANGED << phase, mountRefCurrent, devicePixelRatio, elapsed,
                    windowListeners, resourceVars, loopVars >>

\* The reported device pixel ratio changes (zoom, another monitor).
DevicePixelRatioChange ==
    /\ phase \in { "mounted", "cleaned" }
    /\ \E d \in DevicePixelRatios \ { devicePixelRatio } :
          devicePixelRatio' = d
    /\ UNCHANGED << phase, mountRefCurrent, clientSize, elapsed, sceneVars,
                    globalUniforms, windowListeners, resourceVars, loopVars >>

\* React detaches the ref when the element is unmounted, which happens
\* before the effect's cleanup runs.
RefDetach ==
    /\ phase = "mounted"
    /\ mountRefCurrent
    /\ mountRefCurrent' = FALSE
    /\ UNCHANGED << phase, clientSize, devicePixelRatio, elapsed, sceneVars,
                    globalUniforms, windowListeners, resourceVars, loopVars >>

\* ---------------------------------------------------------------- cleanup
\* The function the effect returns.
Cleanup ==
    /\ phase = "mounted"
    /\ phase' = "cleaned"
    /\ windowListeners' = RemoveEventListener(windowListeners, "onWindowResize")
    /\ rafPending' = CancelAnimationFrame(rafPending, animationFrameId)
    /\ rendererDisposed' = TRUE
    /\ sceneChildren' = {}
    /\ UNCHANGED << mountRefCurrent, clientSize, devicePixelRatio, elapsed,
                    sceneVars, globalUniforms, controlsConnected,
                    textureDisposed, heartScale, pos, rafNextId,
                    animationFrameId, renderCount >>

Next ==
    \/ MountSkipped
    \/ Mount
    \/ AnimationFrame
    \/ ClockAdvance
    \/ WindowResize
    \/ DevicePixelRatioChange
    \/ RefDetach
    \/ Cleanup

Spec == Init /\ [][Next]_vars

\* ================================================================= claims
Built == phase \in { "mounted", "cleaned" }

\* The particles of a buffer, by the (1-based) index of their x coordinate.
Particles(p) == { k \in 1..Len(p) : k % 3 = 1 }
XOf(p, k) == p[k]
YOf(p, k) == p[k + 1]
ZOf(p, k) == p[k + 2]

\* A step in which animate ran (only animate renders).
TickStep == renderCount' = renderCount + 1

\* A step in which the resize handler ran past its early return on a
\* container whose size changed.
ResizeHandledStep ==
    /\ "onWindowResize" \in windowListeners
    /\ mountRefCurrent
    /\ clientSize' # clientSize

\* ------------------------------------------------------------------- C1
\* C1: at the end of every tick each snow particle's y lies in [-20, 20], and
\* a particle whose y falls below -20 during a tick has y = 20 at the end of
\* that tick (one that does not fall below keeps the fallen y).
SnowYInRange ==
    Built => \A k \in Particles(pos) :
                 YOf(pos, k) >= SnowLower /\ YOf(pos, k) <= SnowUpper
SnowWrapStep ==
    (TickStep /\ Built) =>
        \A k \in Particles(pos) :
            IF YOf(pos, k) - SnowFall < SnowLower
            THEN YOf(pos', k) = SnowUpper
            ELSE YOf(pos', k) = YOf(pos, k) - SnowFall
\* C1: y is in [-20, 20] in every state, and every tick wraps a particle that
\* fell below -20 to exactly 20.
C1_SnowWrapInvariant == [] SnowYInRange /\ [][SnowWrapStep]_vars
\* A particle sits at the upper bound after a later tick wrapped it.
C1_Witness ==
    /\ Built
    /\ renderCount >= 2
    /\ \E k \in Particles(pos) : YOf(pos, k) = SnowUpper

\* ------------------------------------------------------------------- C2
\* C2 as stated: every particle's x, y and z stay inside the cube it was
\* generated in (x, z in [-25, 25], y in [-20, 20]).
C2_SnowInsideCube ==
    Built => \A k \in Particles(pos) :
                 /\ XOf(pos, k) >= -HalfXZ /\ XOf(pos, k) <= HalfXZ
                 /\ YOf(pos, k) >= -HalfY /\ YOf(pos, k) <= HalfY
                 /\ ZOf(pos, k) >= -HalfXZ /\ ZOf(pos, k) <= HalfXZ
\* C2 amended: y stays in [-20, 20] and z in [-25, 25]; x is not confined to
\* the cube but moves at most 0.01 per tick, so after n ticks it lies in
\* [-25 - 0.01 n, 25 + 0.01 n].
C2_SnowDriftBounded ==
    Built => \A k \in Particles(pos) :
                 /\ XOf(pos, k) >= -HalfXZ - SnowDrift * renderCount
                 /\ XOf(pos, k) <= HalfXZ + SnowDrift * renderCount
                 /\ YOf(pos, k) >= -HalfY /\ YOf(pos, k) <= HalfY
                 /\ ZOf(pos, k) >= -HalfXZ /\ ZOf(pos, k) <= HalfXZ
\* A particle has drifted out of the cube on the x axis.
C2_Witness ==
    /\ Built
    /\ \E k \in Particles(pos) : XOf(pos, k) < -HalfXZ

\* ------------------------------------------------------------------- C3
\* C3: once cleanup has run no animation-frame callback is pending, and no
\* later step changes uTime, the heart scale or the snow buffer or renders.
NoTickAfterCleanupStep ==
    /\ phase' = "cleaned" => rafPending' = {}
    /\ phase = "cleaned" =>
          /\ globalUniforms'.uTime = globalUniforms.uTime
          /\ UNCHANGED << heartScale, pos, renderCount >>
\* C3: every step keeps the above: after cleanup no tick runs again.
C3_NoTickAfterCleanup == [][NoTickAfterCleanupStep]_vars
\* Cleaned up after the second tick, with time passed since that tick and the
\* tick bound not reached.
C3_Witness ==
    /\ phase = "cleaned"
    /\ renderCount = 2
    /\ renderCount < MaxTicks
    /\ elapsed > globalUniforms.uTime

\* ------------------------------------------------------------------- C4
\* C4: once cleanup has run no resize listener is registered, and no later
\* step changes camera aspect, renderer size, composer size or uPixelRatio.
NoResizeAfterCleanupStep ==
    /\ phase' = "cleaned" => windowListeners' = {}
    /\ phase = "cleaned" =>
          /\ globalUniforms'.uPixelRatio = globalUniforms.uPixelRatio
          /\ UNCHANGED << cameraAspect, rendererSize, composerSize >>
\* C4: every step keeps the above: after cleanup no resize updates the scene.
C4_NoResizeAfterCleanup == [][NoResizeAfterCleanupStep]_vars
\* Cleaned up with the container still referenced, and the window has since
\* been resized and the device pixel ratio has changed.
C4_Witness ==
    /\ phase = "cleaned"
    /\ mountRefCurrent
    /\ clientSize # rendererSize
    /\ devicePixelRatio = 150
    /\ globalUniforms.uPixelRatio = MaxPixelRatio

\* ------------------------------------------------------------------- C5
\* C5: after cleanup the renderer, the bokeh texture and the registered
\* listeners are all released.
C5_TeardownReleasesAll ==
    phase = "cleaned" =>
        /\ rendererDisposed
        /\ textureDisposed
        /\ windowListeners = {}
        /\ ~controlsConnected

\* ------------------------------------------------------------------- C6
\* C6 as stated: between mount and teardown only an animate tick changes any
\* of the three uniforms.
UniformsOnlyByTickStep ==
    (phase = "mounted" /\ phase' = "mounted" /\ globalUniforms' # globalUniforms)
        => TickStep
\* C6 as stated: every step that changes a uniform while mounted is a tick.
C6_UniformsOnlyByTick == [][UniformsOnlyByTickStep]_vars
\* C6 amended: between mount and teardown uTime is changed only by an animate
\* tick, pointTexture is never changed, and uPixelRatio is changed only by
\* the resize handler (never by a tick).
UniformWritersStep ==
    (phase = "mounted" /\ phase' = "mounted") =>
        /\ globalUniforms'.uTime # globalUniforms.uTime => TickStep
        /\ globalUniforms'.pointTexture = globalUniforms.pointTexture
        /\ globalUniforms'.uPixelRatio # globalUniforms.uPixelRatio =>
              /\ ~TickStep
              /\ "onWindowResize" \in windowListeners
              /\ mountRefCurrent
              /\ UNCHANGED << devicePixelRatio, loopVars >>
\* C6 amended: uTime only by a tick, pointTexture never, uPixelRatio only by
\* the resize handler.
C6_UniformWriters == [][UniformWritersStep]_vars
\* Mounted, with ticks having advanced uTime and a resize having changed
\* uPixelRatio from the value it had at mount.
C6_Witness ==
    /\ phase = "mounted"
    /\ globalUniforms.uTime > 0
    /\ globalUniforms.uPixelRatio # rendererPixelRatio

\* ------------------------------------------------------------------- C7
\* C7: while mounted, a handled resize to (w, h) leaves camera aspect = w / h
\* and renderer size = composer size = (w, h).
ResizeUpdatesAllStep ==
    (phase = "mounted" /\ ResizeHandledStep) =>
        /\ cameraAspect' = Aspect(clientSize'[1], clientSize'[2])
        /\ rendererSize' = clientSize'
        /\ composerSize' = clientSize'
\* C7: every handled resize leaves aspect, renderer and composer at (w, h).
C7_ResizeUpdatesAll == [][ResizeUpdatesAllStep]_vars
\* Mounted at 800 x 600 or 600 x 300 and resized to 400 x 300 (the pixel
\* ratio uniform shows that a resize was handled after mount).
C7_Witness ==
    /\ phase = "mounted"
    /\ mountRefCurrent
    /\ clientSize = << 400, 300 >>
    /\ rendererSize = << 400, 300 >>
    /\ composerSize = << 400, 300 >>
    /\ cameraAspect = << 4, 3 >>
    /\ globalUniforms.uPixelRatio # rendererPixelRatio

\* ------------------------------------------------------------------- C8
\* C8: uPixelRatio is at most 2 in every state after mount, and right after
\* mount and after each handled resize it is min(device pixel ratio, 2).
PixelRatioAtMost2 == Built => globalUniforms.uPixelRatio <= 200
PixelRatioClampedStep ==
    ((phase = "init" /\ phase' = "mounted")
        \/ (phase = "mounted" /\ ResizeHandledStep)) =>
        globalUniforms'.uPixelRatio =
            (IF devicePixelRatio' < 200 THEN devicePixelRatio' ELSE 200)
\* C8: uPixelRatio <= 2 always, and = min(device pixel ratio, 2) right after
\* mount and after each handled resize.
C8_PixelRatioClamped == [] PixelRatioAtMost2 /\ [][PixelRatioClampedStep]_vars
\* Mounted at ratio 1.5, then resized at device ratio 3: the uniform is 2.
C8_Witness ==
    /\ phase = "mounted"
    /\ rendererPixelRatio = 150
    /\ devicePixelRatio = 300
    /\ globalUniforms.uPixelRatio = 200

\* ------------------------------------------------------------------- C9
\* C9: at most one animation-frame callback is pending at any moment, exactly
\* one (the last scheduled) while mounted, and every tick so far scheduled
\* one frame and rendered once.
C9_SingleTick ==
    /\ Cardinality(rafPending) <= 1
    /\ phase = "mounted" =>
          /\ rafPending = { animationFrameId }
          /\ animationFrameId = rafNextId - 1
    /\ renderCount = rafNextId - 1
\* Mounted, three ticks done, one callback pending.
C9_Witness ==
    /\ phase = "mounted"
    /\ renderCount = 3
    /\ Cardinality(rafPending) = 1

\* ------------------------------------------------------------------ C10
\* C10: uPixelRatio always equals the pixel ratio the renderer was last
\* configured with.
C10_UniformMatchesRenderer ==
    Built => globalUniforms.uPixelRatio = rendererPixelRatio

====
